---- MODULE Spec2Model ----
(***************************************************************************)
(* Model of calc_local_morans.py: the command line entry point (__main__), *)
(* calc_local_morans (load, field check, contiguity weights, mean          *)
(* imputation, Local Moran's I, LISA classification, column selection) and *)
(* the emission of the two artifacts followed by plot_lisa.                *)
(*                                                                         *)
(* Numbers of the attribute column are exact rationals [num, den]; the     *)
(* missing marker NaN is 0/0.  Pseudo p-values are counted in thousandths  *)
(* (Moran_Local's default of 999 permutations gives p = (c+1)/1000).       *)
(* A data frame is a function from column names to equally long columns.   *)
(* libpysal and esda are external: the weights object is named by its      *)
(* rule, and Moran_Local's p_sim and q are chosen nondeterministically.    *)
(***************************************************************************)
EXTENDS Integers, Sequences, FiniteSets, TLC

VARIABLES
    sys_argv,        \* the command line, program name first
    file,            \* the source on disk: [readable, table]
    pc,              \* position of the run
    shapefile_data,  \* the data frame held by calc_local_morans
    weights,         \* the contiguity weights object
    moran_loc,       \* the Moran_Local object
    results,         \* what calc_local_morans returned
    geojson,         \* local_morans_results.geojson
    csv,             \* local_morans_results.csv
    figure,          \* the colours plot_lisa has drawn
    stdout,          \* the lines printed
    status,          \* the process completion status
    calls,           \* the collaborators invoked, in order
    run,             \* which execution of the program this is
    prev             \* what the previous execution returned

vars == <<sys_argv, file, pc, shapefile_data, weights, moran_loc, results,
          geojson, csv, figure, stdout, status, calls, run, prev>>

---------------------------------------------------------------------------
(* Bounds *)

MaxUnits == 2
MaxArgv == 5
FillLen == 5

---------------------------------------------------------------------------
(* Numbers *)

Rat(n, d) == [num |-> n, den |-> d]

NaN == Rat(0, 0)

isna(x) == x.den = 0

RECURSIVE GCD(_, _)
GCD(a, b) == IF b = 0 THEN a ELSE GCD(b, a % b)

Quot(n, d) == IF d = 0 THEN NaN ELSE Rat(n \div GCD(n, d), d \div GCD(n, d))

---------------------------------------------------------------------------
(* Absent objects *)

None == [None |-> TRUE]

Range(s) == {s[i] : i \in DOMAIN s}

---------------------------------------------------------------------------
(* The command line *)

FieldNames == {"val", "nofield"}

WeightTypes == {"queen", "rook", "Queen", "hex"}

\* str.lower() on the contiguity selectors of the model
lower(s) == CASE s = "Queen" -> "queen"
              [] s = "Rook" -> "rook"
              [] OTHER -> s

\* sys.argv of length len: program, source path, field, contiguity type, extras
Argv(len, f, w) ==
    [i \in 1..len |-> CASE i = 1 -> "calc_local_morans.py"
                        [] i = 2 -> "input.shp"
                        [] i = 3 -> f
                        [] i = 4 -> w
                        [] OTHER -> "extra"]

ArgvSet ==
    {Argv(len, f, w) : len \in 1..MaxArgv, f \in FieldNames, w \in WeightTypes}

\* an argument check that only rejects too few arguments
TooFewArgs(argv) == Len(argv) < 4

\* len(sys.argv) != 4
WrongArgCount(argv) == Len(argv) # 4

input_shapefile == sys_argv[2]

field_name == sys_argv[3]

weight_type == sys_argv[4]

---------------------------------------------------------------------------
(* The source on disk *)

AttrValues == {NaN, Rat(2, 1), Rat(4, 1)}

FillValues == {NaN, Rat(2, 1), Rat(4, 1), Rat(6, 1), Rat(8, 1)}

\* the table of n units: the attribute column and the geometry column,
\* unit i carrying geometry i
Table(col) == [c \in {"val", "geometry"} |->
                  IF c = "val" THEN col ELSE [i \in 1..Len(col) |-> i]]

Tables(values, maxlen) ==
    {Table(col) : col \in UNION {[1..n -> values] : n \in 1..maxlen}}

Files(values, maxlen) ==
    {[readable |-> r, table |-> t] : r \in BOOLEAN, t \in Tables(values, maxlen)}

---------------------------------------------------------------------------
(* Data frames *)

columns(df) == DOMAIN df

\* df[name] = col
assign(df, name, col) == [c \in DOMAIN df \cup {name} |->
                             IF c = name THEN col ELSE df[c]]

\* df[[names]]
select(df, names) == [c \in names |-> df[c]]

\* a drop that leaves the column in place
keep_columns(df, name) == df

\* df.drop(columns=name)
drop(df, name) == [c \in DOMAIN df \ {name} |-> df[c]]

---------------------------------------------------------------------------
(* Missing values, line 43 *)

RECURSIVE SumPresent(_)
SumPresent(s) ==
    IF s = <<>> THEN 0
    ELSE (IF isna(Head(s)) THEN 0 ELSE Head(s).num) + SumPresent(Tail(s))

RECURSIVE CountPresent(_)
CountPresent(s) ==
    IF s = <<>> THEN 0
    ELSE (IF isna(Head(s)) THEN 0 ELSE 1) + CountPresent(Tail(s))

\* a mean that counts the missing entries as zeros
mean_over_all(s) == Quot(SumPresent(s), Len(s))

\* Series.mean(): missing entries are skipped; NaN when nothing is present
mean(s) == Quot(SumPresent(s), CountPresent(s))

\* Series.fillna(value)
fillna(s, value) == [i \in 1..Len(s) |-> IF isna(s[i]) THEN value ELSE s[i]]

RECURSIVE KeepPresent(_, _)
KeepPresent(col, by) ==
    IF col = <<>> THEN <<>>
    ELSE (IF isna(Head(by)) THEN <<>> ELSE <<Head(col)>>)
         \o KeepPresent(Tail(col), Tail(by))

\* missing values handled by dropping their rows
DropMissing(df, name) == [c \in DOMAIN df |-> KeepPresent(df[c], df[name])]

\* shapefile_data[field_name] = shapefile_data[field_name].fillna(....mean())
FillMissing(df, name) == assign(df, name, fillna(df[name], mean(df[name])))

---------------------------------------------------------------------------
(* Contiguity weights, lines 34-40 *)

\* an unknown selector falls back to Queen
WeightsOrQueen(wt) == IF lower(wt) = "rook" THEN "rook" ELSE "queen"

\* the weights object built for a selector, None when the selector is invalid
MakeWeights(wt) == CASE lower(wt) = "queen" -> "queen"
                     [] lower(wt) = "rook" -> "rook"
                     [] OTHER -> "None"

---------------------------------------------------------------------------
(* Moran_Local, line 46 (esda, external) *)

\* the significance threshold 0.05, in thousandths
Alpha == 50

\* the pseudo p-values the model draws, in thousandths: either side of the
\* threshold, and p = 1
PValues == {Alpha - 1, Alpha, 1000}

Quadrants == 1..4

\* the objects Moran_Local can return for n observations; the statistic and
\* its z-score are not computed here and are carried as 0
MoranLocals(n) ==
    {[Is |-> [i \in 1..n |-> 0], p_sim |-> p, z_sim |-> [i \in 1..n |-> 0], q |-> q] :
        p \in [1..n -> PValues], q \in [1..n -> Quadrants]}

---------------------------------------------------------------------------
(* Classification, lines 57-70 *)

\* 1 * (a == b)
eq(a, b) == IF a = b THEN 1 ELSE 0

\* a significance gate that lets the threshold itself through
sig_inclusive(p) == IF p <= Alpha THEN 1 ELSE 0

\* sig = 1 * (p_sim < 0.05)
sig(p) == IF p < Alpha THEN 1 ELSE 0

hotspot(p, q) == 1 * eq(q, 1) * sig(p)

\* a coldspot term that forgets the significance mask
coldspot_unmasked(p, q) == 2 * eq(q, 3)

coldspot(p, q) == 2 * eq(q, 3) * sig(p)

outlier1(p, q) == 3 * eq(q, 2) * sig(p)

outlier2(p, q) == 4 * eq(q, 4) * sig(p)

categories(p, q) == hotspot(p, q) + coldspot(p, q) + outlier1(p, q) + outlier2(p, q)

labels == <<"Non-sig", "Hotspot (High-High)", "Coldspot(Low-Low)",
            "outlier(Low-High)", "outlier(High-Low)">>

\* Categorical.from_codes accepts the codes -1 .. len(categories)-1
valid_codes(codes, cats) == \A i \in DOMAIN codes : codes[i] \in -1..(Len(cats) - 1)

\* Categorical.from_codes(codes, cats).astype(str)
from_codes(codes, cats) ==
    [i \in DOMAIN codes |-> IF codes[i] = -1 THEN "nan" ELSE cats[codes[i] + 1]]

\* the category codes of a Moran_Local object
codes_of(m) == [i \in DOMAIN m.q |-> categories(m.p_sim[i], m.q[i])]

ResultColumns(name) == {name, "LocMoranI", "p_value", "Z_score", "LISA_Clust", "geometry"}

---------------------------------------------------------------------------
(* plot_lisa, lines 87-99 *)

custom_colors == [l \in {"Non-sig", "Hotspot (High-High)", "Coldspot(Low-Low)",
                         "outlier(Low-High)", "outlier(High-Low)"} |->
                    CASE l = "Non-sig" -> "lightgrey"
                      [] l = "Hotspot (High-High)" -> "red"
                      [] l = "Coldspot(Low-Low)" -> "blue"
                      [] l = "outlier(Low-High)" -> "lightblue"
                      [] OTHER -> "lightcoral"]

\* data['LISA_Clust'].map(custom_colors).fillna('lightgrey')
color_map(col) == [i \in DOMAIN col |->
                     IF col[i] \in DOMAIN custom_colors THEN custom_colors[col[i]]
                     ELSE "lightgrey"]

---------------------------------------------------------------------------
(* The run *)

TypeOK ==
    /\ pc \in {"main", "read", "check_field", "weights", "missing", "moran",
               "classify", "select", "returned", "save_csv", "plot", "exited"}
    /\ status \in {0, 1}
    /\ run \in {1, 2}

InitWith(fs) ==
    /\ sys_argv \in ArgvSet
    /\ file \in fs
    /\ pc = "main"
    /\ shapefile_data = None
    /\ weights = "None"
    /\ moran_loc = None
    /\ results = None
    /\ geojson = None
    /\ csv = None
    /\ figure = None
    /\ stdout = <<>>
    /\ status = 0
    /\ calls = <<>>
    /\ run = 1
    /\ prev = None

Init == InitWith(Files(AttrValues, MaxUnits))

\* lines 126-133
Main ==
    /\ pc = "main"
    /\ IF WrongArgCount(sys_argv)
       THEN /\ stdout' = Append(stdout, "{\"error\": \"Incorrect number of arguments provided.\"}")
            /\ status' = 1
            /\ pc' = "exited"
       ELSE /\ pc' = "read"
            /\ UNCHANGED <<stdout, status>>
    /\ UNCHANGED <<sys_argv, file, shapefile_data, weights, moran_loc, results,
                   geojson, csv, figure, calls, run, prev>>

\* lines 22-26
ReadFile ==
    /\ pc = "read"
    /\ calls' = Append(calls, "read_file")
    /\ IF file.readable
       THEN /\ shapefile_data' = file.table
            /\ pc' = "check_field"
            /\ UNCHANGED <<stdout, results>>
       ELSE /\ stdout' = Append(stdout, "Failed to read shapefile")
            /\ results' = None
            /\ pc' = "returned"
            /\ UNCHANGED shapefile_data
    /\ UNCHANGED <<sys_argv, file, weights, moran_loc, geojson, csv, figure,
                   status, run, prev>>

\* lines 29-31
CheckField ==
    /\ pc = "check_field"
    /\ IF field_name \notin columns(shapefile_data)
       THEN /\ stdout' = Append(stdout, "Field not found in the shapefile attributes.")
            /\ results' = None
            /\ pc' = "returned"
       ELSE /\ pc' = "weights"
            /\ UNCHANGED <<stdout, results>>
    /\ UNCHANGED <<sys_argv, file, shapefile_data, weights, moran_loc, geojson,
                   csv, figure, status, calls, run, prev>>

\* lines 34-40
BuildWeights ==
    /\ pc = "weights"
    /\ IF MakeWeights(weight_type) # "None"
       THEN /\ weights' = MakeWeights(weight_type)
            /\ calls' = Append(calls, IF MakeWeights(weight_type) = "queen"
                                      THEN "Queen.from_dataframe"
                                      ELSE "Rook.from_dataframe")
            /\ pc' = "missing"
            /\ UNCHANGED <<stdout, results>>
       ELSE /\ stdout' = Append(stdout, "Invalid weight type specified. Use 'queen' or 'rook'.")
            /\ results' = None
            /\ pc' = "returned"
            /\ UNCHANGED <<weights, calls>>
    /\ UNCHANGED <<sys_argv, file, shapefile_data, moran_loc, geojson, csv,
                   figure, status, run, prev>>

\* line 43
HandleMissing ==
    /\ pc = "missing"
    /\ shapefile_data' = FillMissing(shapefile_data, field_name)
    /\ pc' = "moran"
    /\ UNCHANGED <<sys_argv, file, weights, moran_loc, results, geojson, csv,
                   figure, stdout, status, calls, run, prev>>

\* line 46
MoranLocal ==
    /\ pc = "moran"
    /\ moran_loc' \in MoranLocals(Len(shapefile_data[field_name]))
    /\ calls' = Append(calls, "Moran_Local")
    /\ pc' = "classify"
    /\ UNCHANGED <<sys_argv, file, shapefile_data, weights, results, geojson,
                   csv, figure, stdout, status, run, prev>>

\* lines 49-70; from_codes raises ValueError on a code out of range, which
\* nothing catches
Classify ==
    /\ pc = "classify"
    /\ IF valid_codes(codes_of(moran_loc), labels)
       THEN /\ shapefile_data' =
                 assign(assign(assign(assign(shapefile_data,
                     "LocMoranI", moran_loc.Is),
                     "p_value", moran_loc.p_sim),
                     "Z_score", moran_loc.z_sim),
                     "LISA_Clust", from_codes(codes_of(moran_loc), labels))
            /\ pc' = "select"
            /\ UNCHANGED status
       ELSE /\ status' = 1
            /\ pc' = "exited"
            /\ UNCHANGED shapefile_data
    /\ UNCHANGED <<sys_argv, file, weights, moran_loc, results, geojson, csv,
                   figure, stdout, calls, run, prev>>

\* lines 73-76
SelectAndReturn ==
    /\ pc = "select"
    /\ results' = select(shapefile_data, ResultColumns(field_name))
    /\ pc' = "returned"
    /\ UNCHANGED <<sys_argv, file, shapefile_data, weights, moran_loc, geojson,
                   csv, figure, stdout, status, calls, run, prev>>

\* lines 135-139
SaveGeoJSON ==
    /\ pc = "returned"
    /\ results # None
    /\ geojson' = results
    /\ calls' = Append(calls, "to_file")
    /\ stdout' = Append(stdout, "Results saved as GeoJSON to local_morans_results.geojson")
    /\ pc' = "save_csv"
    /\ UNCHANGED <<sys_argv, file, shapefile_data, weights, moran_loc, results,
                   csv, figure, status, run, prev>>

\* lines 143-145
SaveCSV ==
    /\ pc = "save_csv"
    /\ csv' = drop(results, "geometry")
    /\ calls' = Append(calls, "to_csv")
    /\ stdout' = Append(stdout, "Results saved as CSV to local_morans_results.csv")
    /\ pc' = "plot"
    /\ UNCHANGED <<sys_argv, file, shapefile_data, weights, moran_loc, results,
                   geojson, figure, status, run, prev>>

\* line 147, then the end of the script
PlotLisa ==
    /\ pc = "plot"
    /\ figure' = [color |-> color_map(results["LISA_Clust"])]
    /\ calls' = Append(calls, "plot_lisa")
    /\ pc' = "exited"
    /\ UNCHANGED <<sys_argv, file, shapefile_data, weights, moran_loc, results,
                   geojson, csv, stdout, status, run, prev>>

\* lines 148-149, then the end of the script
ReportFailure ==
    /\ pc = "returned"
    /\ results = None
    /\ stdout' = Append(stdout, "{\"error\": \"Calculation failed\"}")
    /\ pc' = "exited"
    /\ UNCHANGED <<sys_argv, file, shapefile_data, weights, moran_loc, results,
                   geojson, csv, figure, status, calls, run, prev>>

Next ==
    \/ Main
    \/ ReadFile
    \/ CheckField
    \/ BuildWeights
    \/ HandleMissing
    \/ MoranLocal
    \/ Classify
    \/ SelectAndReturn
    \/ SaveGeoJSON
    \/ SaveCSV
    \/ PlotLisa
    \/ ReportFailure

Spec == Init /\ [][Next]_vars

---------------------------------------------------------------------------
(* The imputation on longer columns: valid runs over columns of up to      *)
(* FillLen units, followed as far as line 43.                              *)

ValidRun ==
    /\ ~WrongArgCount(sys_argv)
    /\ file.readable
    /\ field_name \in columns(file.table)
    /\ MakeWeights(weight_type) # "None"

InitFill == InitWith(Files(FillValues, FillLen)) /\ ValidRun

NextFill ==
    \/ Main
    \/ ReadFile
    \/ CheckField
    \/ BuildWeights
    \/ HandleMissing

SpecFill == InitFill /\ [][NextFill]_vars

---------------------------------------------------------------------------
(* The program executed a second time on the same command line and source. *)

\* lines 125-133: a fresh process on the same inputs
Rerun ==
    /\ pc = "exited"
    /\ run = 1
    /\ run' = 2
    /\ prev' = results
    /\ pc' = "main"
    /\ shapefile_data' = None
    /\ weights' = "None"
    /\ moran_loc' = None
    /\ results' = None
    /\ stdout' = <<>>
    /\ status' = 0
    /\ calls' = <<>>
    /\ figure' = None
    /\ UNCHANGED <<sys_argv, file, geojson, csv>>

NextRerun ==
    \/ Next
    \/ Rerun

SpecRerun == Init /\ [][NextRerun]_vars

---------------------------------------------------------------------------
(* Properties *)

Units == DOMAIN file.table["geometry"]

RawColumn == file.table["val"]

Returned == pc \in {"returned", "save_csv", "plot", "exited"}

\* the core computation fails: source unreadable, field absent, or a
\* contiguity type other than queen/rook
CoreFails ==
    /\ ~WrongArgCount(sys_argv)
    /\ \/ ~file.readable
       \/ field_name \notin columns(file.table)
       \/ lower(weight_type) \notin {"queen", "rook"}

NothingEmitted ==
    /\ geojson = None
    /\ csv = None
    /\ figure = None
    /\ Range(calls) \cap {"to_file", "to_csv", "plot_lisa"} = {}

\* the label the specification's text gives for p-value p and quadrant q
StatedLabel(p, q) ==
    IF p >= 50 THEN "Non-sig"
    ELSE CASE q = 1 -> "Hotspot (High-High)"
           [] q = 3 -> "Coldspot (Low-Low)"
           [] q = 2 -> "Outlier (Low-High)"
           [] q = 4 -> "Outlier (High-Low)"

\* the same lookup with the strings the program writes
WrittenLabel(p, q) ==
    IF p >= 50 THEN "Non-sig"
    ELSE CASE q = 1 -> "Hotspot (High-High)"
           [] q = 3 -> "Coldspot(Low-Low)"
           [] q = 2 -> "outlier(Low-High)"
           [] q = 4 -> "outlier(High-Low)"

\* C1 as stated: every unit's written label is "Non-sig" when p >= 0.05 and
\* otherwise "Hotspot (High-High)", "Coldspot (Low-Low)", "Outlier (Low-High)"
\* or "Outlier (High-Low)" for q = 1, 3, 2, 4.
C1_StatedLabels ==
    results # None =>
        \A i \in Units :
            results["LISA_Clust"][i] = StatedLabel(results["p_value"][i], moran_loc.q[i])

\* C1 amended: every unit's written label is "Non-sig" when p >= 0.05 and
\* otherwise "Hotspot (High-High)", "Coldspot(Low-Low)", "outlier(Low-High)"
\* or "outlier(High-Low)" for q = 1, 3, 2, 4.
C1_WrittenLabels ==
    results # None =>
        \A i \in Units :
            results["LISA_Clust"][i] = WrittenLabel(results["p_value"][i], moran_loc.q[i])

C1_Witness ==
    /\ results # None
    /\ \E i, j \in Units :
        /\ results["p_value"][i] < 50 /\ moran_loc.q[i] = 3
        /\ results["LISA_Clust"][i] = "Coldspot(Low-Low)"
        /\ results["p_value"][j] = 50 /\ moran_loc.q[j] = 3
        /\ results["LISA_Clust"][j] = "Non-sig"

\* C2: when the core computation fails (unreadable source, absent field,
\* contiguity type other than queen/rook) neither artifact is ever written
\* and plot_lisa is never invoked.
C2_NoOutputOnFailure == CoreFails => NothingEmitted

C2_Witness ==
    /\ Len(sys_argv) = 4
    /\ pc = "exited"
    /\ weight_type = "hex"
    /\ file.readable
    /\ field_name \in columns(file.table)
    /\ stdout[Len(stdout)] = "{\"error\": \"Calculation failed\"}"

\* C3: every run in which the core computation fails ends with a non-zero
\* completion status.
C3_NonZeroOnFailure == (pc = "exited" /\ CoreFails) => status # 0

\* C4: with an argument count other than three the program prints the
\* structured error and exits non-zero, and never loads the source, computes
\* a statistic, writes an artifact or invokes the renderer.
C4_WrongArgCount ==
    Len(sys_argv) # 4 =>
        /\ calls = <<>>
        /\ shapefile_data = None
        /\ moran_loc = None
        /\ results = None
        /\ NothingEmitted
        /\ pc \in {"main", "exited"}
        /\ pc = "exited" =>
            /\ status # 0
            /\ stdout = <<"{\"error\": \"Incorrect number of arguments provided.\"}">>

C4_Witness ==
    /\ Len(sys_argv) = 5
    /\ pc = "exited"
    /\ status = 1

\* C5: a run in which calc_local_morans returned a result has, at its end,
\* written the geometry-preserving artifact and the tabular artifact without
\* the geometry column and then invoked the renderer, in that order; the
\* renderer is never invoked before both artifacts are written.
C5_EmitThenRender ==
    /\ "plot_lisa" \in Range(calls) => (geojson # None /\ csv # None)
    /\ (pc = "exited" /\ results # None) =>
        /\ geojson = results
        /\ "geometry" \in columns(geojson)
        /\ columns(csv) = columns(results) \ {"geometry"}
        /\ \A c \in columns(csv) : csv[c] = results[c]
        /\ figure # None
        /\ Len(calls) >= 3
        /\ SubSeq(calls, Len(calls) - 2, Len(calls)) = <<"to_file", "to_csv", "plot_lisa">>

C5_Witness ==
    /\ pc = "exited"
    /\ results # None
    /\ csv # None
    /\ "plot_lisa" \in Range(calls)

\* C6: if every value of the attribute column is missing, the computation
\* fails instead of proceeding to the statistic.
C6_AllMissingFails ==
    (ValidRun /\ \A i \in Units : isna(RawColumn[i])) =>
        /\ "Moran_Local" \notin Range(calls)
        /\ results = None

RECURSIVE SumAt(_, _)
SumAt(s, I) ==
    IF I = {} THEN 0
    ELSE LET i == CHOOSE k \in I : TRUE IN s[i].num + SumAt(s, I \ {i})

Present(s) == {i \in DOMAIN s : s[i].den # 0}

\* C7: with at least one present value, imputation replaces every missing
\* entry with the arithmetic mean of the present values and leaves every
\* present entry unchanged.
C7_MeanImputation ==
    (pc = "moran" /\ Present(RawColumn) # {}) =>
        /\ Len(shapefile_data["val"]) = Len(RawColumn)
        /\ \A i \in Units :
            LET x == shapefile_data["val"][i] IN
            IF i \in Present(RawColumn)
            THEN x = RawColumn[i]
            ELSE /\ x.den > 0
                 /\ x.num * Cardinality(Present(RawColumn))
                        = x.den * SumAt(RawColumn, Present(RawColumn))

C7_Witness ==
    /\ pc = "moran"
    /\ RawColumn = <<Rat(2, 1), Rat(4, 1), Rat(6, 1), Rat(8, 1), NaN>>
    /\ shapefile_data["val"] = <<Rat(2, 1), Rat(4, 1), Rat(6, 1), Rat(8, 1), Rat(5, 1)>>

\* C8: two executions on identical inputs yield identical p-values and
\* identical category labels for every unit.
C8_Reproducible ==
    (run = 2 /\ results # None /\ prev # None) =>
        /\ results["p_value"] = prev["p_value"]
        /\ results["LISA_Clust"] = prev["LISA_Clust"]

\* C9: the result has exactly one record per input unit, in the input order.
C9_OrderAndCount ==
    results # None =>
        /\ \A c \in columns(results) : Len(results[c]) = Len(file.table["geometry"])
        /\ results["geometry"] = file.table["geometry"]
        /\ \A i \in Present(RawColumn) : results["val"][i] = RawColumn[i]

C9_Witness ==
    /\ results # None
    /\ columns(results) = {"val", "LocMoranI", "p_value", "Z_score", "LISA_Clust", "geometry"}
    /\ Len(RawColumn) >= 2
    /\ isna(RawColumn[1])
    /\ ~isna(RawColumn[2])
    /\ results["geometry"][2] = 2

\* C10: for every unit at most one of hotspot, coldspot, outlier1, outlier2
\* is non-zero, their sum is in 0..4, is 0 exactly when the unit is
\* non-significant (p >= 0.05), and indexes inside the five labels.
C10_OneTerm ==
    moran_loc # None =>
        \A i \in DOMAIN moran_loc.q :
            LET p == moran_loc.p_sim[i]
                q == moran_loc.q[i]
                terms == <<hotspot(p, q), coldspot(p, q), outlier1(p, q), outlier2(p, q)>>
            IN /\ Cardinality({k \in 1..4 : terms[k] # 0}) <= 1
               /\ categories(p, q) \in 0..4
               /\ (categories(p, q) = 0) <=> (p >= 50)
               /\ categories(p, q) + 1 \in DOMAIN labels
               /\ Len(labels) = 5

C10_Witness ==
    /\ moran_loc # None
    /\ \E i \in DOMAIN moran_loc.q :
        /\ moran_loc.p_sim[i] < 50
        /\ moran_loc.q[i] = 4
        /\ categories(moran_loc.p_sim[i], moran_loc.q[i]) = 4

====
